---- MODULE Spec2Model ----
(***************************************************************************)
(* Model of the binding and session-memory bridge of the Basis Universal   *)
(* transcoder wrapper.                                                     *)
(*                                                                         *)
(*   - KTX2Transcoder (packages/basis-universal-transcoder/src/            *)
(*     transcoder.ts, the numeric-pointer class at lines 8-208) and its    *)
(*     KTX2ImageLevelInfo helper (lines 244-317);                          *)
(*   - BasisUniversal.getInstance (packages/basis-universal-transcoder/    *)
(*     src/index.ts lines 93-123).                                         *)
(*                                                                         *)
(* The native library is an opaque collaborator: the boolean results of    *)
(* its entry points, the byte size it reports and whether an allocation    *)
(* replaces the heap buffer are inputs chosen with \E.  The native heap is *)
(* a table of block slots; the allocator hands out the lowest free slot.   *)
(***************************************************************************)
EXTENDS Integers, Sequences, FiniteSets, TLC

\* ---------------------------------------------------------------- bounds
NumSessions == 2      \* KTX2Transcoder objects that may be created
MaxLen == 2           \* largest data.length handed to init
MaxOut == 2           \* largest byte size the native size query reports
NumCallers == 3       \* asynchronous callers of getInstance

\* ------------------------------------------------------ program constants
structSize == 56      \* 12 * 4 + 2 * 4, the Image-Level-Info block

Sessions == 1..NumSessions
Handles == 1..NumSessions
Addr == 1..(3 * NumSessions)
DataLens == 0..MaxLen
Bytes == {1, 2}
\* the data handed to init: every length, filled with one byte value
Datas == {[i \in 1..n |-> b] : n \in DataLens, b \in Bytes}
OutSizes == 0..MaxOut
Callers == 1..NumCallers

VARIABLES
  \* native side of one loaded module
  heap,            \* Addr -> [live, size, owner]: blocks of the allocator
  inputBytes,      \* per session: the heap bytes of its input arena
  infoBytes,       \* per session: heap bytes 48..55 of its level-info block
  handles,         \* Handles -> owner session, 0 when not allocated
  \* fields of each KTX2Transcoder
  constructed,
  transcoderPtr,
  inputMemPtr,
  inputMemSize,
  outputMemPtr,
  outputMemSize,
  initialized,
  disposed,
  \* KTX2ImageLevelInfo.dataView: the address it was created on and whether
  \* its ArrayBuffer is still the module's heap buffer
  infoPtr,
  infoAttached,
  infoNulled,      \* KTX2ImageLevelInfo.dispose has set dataView to null
  \* history
  transcodingReady, \* startTranscoding returned true since the last init that returned true
  result,           \* the data view last returned by transcodeImageLevel
  resultCurrent,    \* no transcodeImageLevel, init or dispose ran since
  lastOp,           \* the operation just completed, its outcome, its native calls
  \* module singleton (BasisUniversal)
  instance,        \* BasisUniversal.instance: 0 is null, else the instance id
  pc,              \* position of each getInstance caller
  got,             \* instance each caller's promise resolved with
  nModules,        \* native module instantiations started
  nCtor,           \* BasisUniversal constructor runs that returned
  unknownAt,       \* index of the stub with an unknown sentinel, 0 if none
  revision         \* which revision of the session classes the sessions run

nativeVars == <<heap, handles, inputBytes, infoBytes>>
fieldVars == <<constructed, transcoderPtr, inputMemPtr, inputMemSize,
               outputMemPtr, outputMemSize, initialized, disposed,
               infoPtr, infoAttached, infoNulled>>
historyVars == <<transcodingReady, result, resultCurrent, lastOp>>
sessionVars == <<nativeVars, fieldVars, historyVars>>
instanceVars == <<instance, pc, got, nModules, nCtor, unknownAt, revision>>
vars == <<sessionVars, instanceVars>>

\* ------------------------------------------------------------ binding table
\* one stub of the prototype table: the value it returns when called with no
\* argument, and its declared parameter count (Function.length)
Proto(name, sentinel, length) == [name |-> name, sentinel |-> sentinel, length |-> length]

BasisFuncProtos ==
  << Proto("basisu_transcoder_init", "undefined", 0),
     Proto("basis_transcoder_format_has_alpha", "false", 1),
     Proto("basis_transcoder_format_is_hdr", "false", 1),
     Proto("basis_transcoder_format_is_uncompressed", "false", 1),
     Proto("basis_get_bytes_per_block_or_pixel", "0", 1),
     Proto("basis_compute_transcoded_image_size_in_bytes", "0", 3),
     Proto("ktx2_transcoder_new", "0", 0),
     Proto("ktx2_transcoder_delete", "undefined", 1),
     Proto("ktx2_transcoder_init", "false", 3),
     Proto("ktx2_transcoder_get_header", "0", 1),
     Proto("ktx2_transcoder_get_basis_texture_format", "0", 1),
     Proto("ktx2_transcoder_start_transcoding", "false", 1),
     Proto("ktx2_transcoder_get_image_level_info", "false", 5),
     Proto("ktx2_transcoder_transcode_image_level", "false", 13) >>

\* (variant: the sentinel is compared with == instead of ===)
getProtoReturnType_looseEquality(v) ==
  IF v \in {"false", "0", "''"} THEN "boolean"
  ELSE IF v = "undefined" THEN "void"
  ELSE "throw"

\* getProtoReturnType: "throw" stands for `throw new Error(...)`
getProtoReturnType(v) ==
  IF v = "false" THEN "boolean"
  ELSE IF v = "0" THEN "number"
  ELSE IF v = "undefined" THEN "void"
  ELSE "throw"

numberArgTypes(count) == [i \in 1..count |-> "number"]

\* module.cwrap(key, returnType, numberArgTypes(func.length))
cwrap(proto) ==
  [name |-> proto.name, ret |-> getProtoReturnType(proto.sentinel),
   args |-> numberArgTypes(proto.length)]

\* some stub makes getProtoReturnType throw
unknownSentinel(p) == \E i \in 1..Len(p) : getProtoReturnType(p[i].sentinel) = "throw"

\* (variant: an entry with an unknown sentinel is skipped instead of aborting)
getAllBasisFuncs_skipping(p) ==
  [threw |-> FALSE,
   table |-> LET known(x) == getProtoReturnType(x.sentinel) # "throw"
                 kept == SelectSeq(p, known)
             IN [i \in 1..Len(kept) |-> cwrap(kept[i])]]

\* getAllBasisFuncs: the reduce over the table; an exception thrown inside
\* it leaves no table behind
getAllBasisFuncs(p) ==
  [threw |-> unknownSentinel(p),
   table |-> IF unknownSentinel(p) THEN <<>> ELSE [i \in 1..Len(p) |-> cwrap(p[i])]]

\* the prototype table in effect: the one of the source, or that table with
\* one stub returning a value that is none of false, 0, undefined
protos ==
  IF unknownAt = 0 THEN BasisFuncProtos
  ELSE [BasisFuncProtos EXCEPT ![unknownAt].sentinel = "''"]

\* this.funcs of the stored instance, <<>> while there is none
funcs == IF instance = 0 THEN <<>> ELSE getAllBasisFuncs(protos).table

\* ------------------------------------------------------------ native heap
FreeBlock == [live |-> FALSE, size |-> 0, owner |-> 0]

\* module._free(ptr): free(0) is a no-op
free(h, ptr) ==
  IF ptr \in Addr /\ h[ptr].live THEN [h EXCEPT ![ptr] = FreeBlock] ELSE h

\* a free that releases nothing it should: not 0 and not a live block
badFree(h, ptr) == ptr # 0 /\ ~(ptr \in Addr /\ h[ptr].live)

\* address module._malloc returns: the lowest free slot
mallocPtr(h) == CHOOSE a \in Addr : ~h[a].live /\ \A b \in Addr : ~h[b].live => a <= b

malloc(h, size, s) ==
  [h EXCEPT ![mallocPtr(h)] = [live |-> TRUE, size |-> size, owner |-> s]]

\* ktx2_transcoder_new(): the lowest handle not in use
newHandle(hs) == CHOOSE x \in Handles : hs[x] = 0 /\ \A y \in Handles : hs[y] = 0 => x <= y

\* the pointer is the base of a live block that session s allocated
holds(h, s, ptr) == ptr \in Addr /\ h[ptr].live /\ h[ptr].owner = s

handleHeld(hs, s, p) == p \in Handles /\ hs[p] = s

\* the n bytes at ptr that a native call reads or writes lie in a block the
\* session holds (a call that touches no bytes needs no block)
within(h, s, ptr, n) == n = 0 \/ (holds(h, s, ptr) /\ n <= h[ptr].size)

\* one native call of an operation: entry point, handle and pointer passed,
\* byte count, whether handle and pointer referred to resources the session
\* held at that moment, and the boolean the native side answered
Call(fn, hnd, ptr, n, ok, res) ==
  [fn |-> fn, hnd |-> hnd, ptr |-> ptr, n |-> n, ok |-> ok, res |-> res]

Bool(b) == IF b THEN "true" ELSE "false"

Pre(s) == [initialized |-> initialized[s], disposed |-> disposed[s],
           ready |-> transcodingReady[s], current |-> resultCurrent[s]]

Op(name, s, ret, calls) ==
  [op |-> name, s |-> s, ret |-> ret, calls |-> calls, pre |-> Pre(s), data |-> <<>>,
   options |-> <<>>, read |-> <<>>, args |-> <<>>, value |-> <<>>]

Fns(calls) == {calls[i].fn : i \in 1..Len(calls)}

\* ------------------------------------------------ KTX2ImageLevelInfo (v1)
\* this.dataView.byteOffset: 0 once the view's buffer has been replaced
byteOffset(s) == IF infoAttached[s] THEN infoPtr[s] ELSE 0

\* views of every other session detach when an allocation replaces the heap
detach(att, s, grow) ==
  [t \in Sessions |-> IF t = s THEN att[t] ELSE IF grow THEN FALSE ELSE att[t]]

detachAll(att, grow) == [t \in Sessions |-> IF grow THEN FALSE ELSE att[t]]

\* The native struct ends with two one-byte bool members: m_alpha_flag at
\* byte 48 and m_iframe_flag at byte 49; bytes 50 and 51 are padding, and the
\* struct ends at byte 52. infoBytes[s][i] is byte 47 + i of the block.
Flags(alpha, iframe) == [alpha |-> alpha, iframe |-> iframe]
NoFlags == Flags(FALSE, FALSE)
FlagAnswers == {Flags(a, i) : a \in BOOLEAN, i \in BOOLEAN}

\* what malloc leaves in the block: the bytes are not initialised
uninitialised(byte) == [i \in 1..(structSize - 12 * 4) |-> byte]

\* the native side assigns the two bool members and nothing after them
nativeFlags(bytes, flags) ==
  [bytes EXCEPT ![1] = IF flags.alpha THEN 1 ELSE 0,
                ![2] = IF flags.iframe THEN 1 ELSE 0]

\* the block after a native fill that was passed address ptr
filledBytes(s, ptr, filled, flags) ==
  IF filled /\ ptr = infoPtr[s] /\ ptr # 0 THEN nativeFlags(infoBytes[s], flags)
  ELSE infoBytes[s]

\* the little-endian 32-bit word k (12 or 13) of the block
uint32(bytes, k) ==
  LET at(i) == bytes[4 * (k - 12) + i]
  IN at(1) + 256 * at(2) + 65536 * at(3) + 16777216 * at(4)

\* get alphaFlag() { return this.dataView[12] !== 0 }, iframeFlag likewise:
\* a detached view reads undefined, and undefined !== 0
flagRead(attached, bytes, k) == IF attached THEN uint32(bytes, k) # 0 ELSE TRUE

\* fill(): ktx2_transcoder_get_image_level_info(handle, dataView.byteOffset, ...)
fill(s, filled) ==
  Call("ktx2_transcoder_get_image_level_info", transcoderPtr[s], byteOffset(s), structSize,
       handleHeld(handles, s, transcoderPtr[s]) /\ within(heap, s, byteOffset(s), structSize),
       Bool(filled))

\* ---------------------------------------------------------- KTX2Transcoder
\* (variant: the guard never fires)
checkDisposed_never(s) == FALSE

checkDisposed(s) == disposed[s]         \* TRUE: throws 'already disposed'

\* (variant: the guard never fires)
checkInitialized_never(s) == FALSE

\* (variant: the guard also asks for a started transcoder)
checkInitialized_needsStart(s) == ~initialized[s] \/ ~transcodingReady[s]

checkInitialized(s) == ~initialized[s]  \* TRUE: throws 'not initialized'

Throw(name, s) ==
  /\ lastOp' = Op(name, s, "throw", <<>>)
  /\ UNCHANGED <<nativeVars, fieldVars, transcodingReady, result, resultCurrent>>

\* (variant: sessions can be made without an instance)
hasInstance_always == TRUE

\* createKTX2Transcoder is a method of a BasisUniversal object, and such an
\* object exists only once the private constructor has run
hasInstance == instance # 0

\* createKTX2Transcoder(): new KTX2Transcoder(funcs)
createKTX2Transcoder(s, grow, byte) ==
  /\ hasInstance
  /\ ~constructed[s]
  /\ UNCHANGED instanceVars
  /\ LET hnd == newHandle(handles)
         ptr == mallocPtr(heap)
     IN /\ handles' = [handles EXCEPT ![hnd] = s]
        /\ heap' = malloc(heap, structSize, s)
        /\ transcoderPtr' = [transcoderPtr EXCEPT ![s] = hnd]
        /\ infoPtr' = [infoPtr EXCEPT ![s] = ptr]
        /\ infoBytes' = [infoBytes EXCEPT ![s] = uninitialised(byte)]
        /\ infoAttached' = [detach(infoAttached, s, grow) EXCEPT ![s] = TRUE]
        /\ constructed' = [constructed EXCEPT ![s] = TRUE]
        /\ lastOp' = Op("new", s, "object",
                        <<Call("ktx2_transcoder_new", 0, 0, 0, TRUE, "-"),
                          Call("malloc", 0, ptr, structSize, TRUE, "-")>>)
  /\ UNCHANGED <<inputMemPtr, inputMemSize, outputMemPtr, outputMemSize, inputBytes,
                 initialized, disposed, infoNulled, transcodingReady, result, resultCurrent>>

\* (variant: the old block is not freed when the arena grows)
releaseOld_leak(h, ptr) == h

\* the free of the grow step: this.funcs.free(this.inputMemPtr / outputMemPtr)
releaseOld(h, ptr) == free(h, ptr)

\* (variant: off by one in the capacity test)
tooSmall_offByOne(capacity, required) == capacity + 1 < required

\* (variant: an arena of exactly the required size is replaced too)
tooSmall_orEqual(capacity, required) == capacity <= required

\* (variant: the arena is replaced whenever its size differs)
tooSmall_orDifferent(capacity, required) == capacity # required

\* the arena is replaced exactly when it is too small
tooSmall(capacity, required) == capacity < required

\* (variant: init forgets to free the output block)
releaseOutput_skip(h, s) == h

\* init's "free output": this.funcs.free(this.outputMemPtr)
releaseOutput(h, s) == free(h, outputMemPtr[s])

\* (variant: the base offset of the released output block is kept)
releasedPtr_kept(ptr) == ptr

\* this.outputMemPtr = 0 after the output block is freed
releasedPtr(ptr) == 0

\* (variant: a failed init keeps the previous flag)
initializedAfter_keep(s, success) == success \/ initialized[s]

\* this.initialized = success
initializedAfter(s, success) == success

\* the bytes of a block malloc has just returned: not written by the wrapper
fresh(size) == [i \in 1..size |-> 0]

\* (variant: the copy into the arena is left out)
set_skipped(mem, data) == mem

\* heap.subarray(inputMemPtr, inputMemPtr + data.length).set(data)
set(mem, data) == data \o SubSeq(mem, Len(data) + 1, Len(mem))

init(s, data, grow, success) ==
  /\ constructed[s]
  /\ UNCHANGED instanceVars
  /\ IF checkDisposed(s) THEN Throw("init", s)
     ELSE
       LET len == Len(data)
           h1 == releaseOutput(heap, s)
           replace == tooSmall(inputMemSize[s], len)
           h2 == IF replace THEN releaseOld(h1, inputMemPtr[s]) ELSE h1
           ptr == IF replace THEN mallocPtr(h2) ELSE inputMemPtr[s]
           h3 == IF replace THEN malloc(h2, len, s) ELSE h2
           c1 == <<Call("free", 0, outputMemPtr[s], 0, ~badFree(heap, outputMemPtr[s]), "-")>>
           c2 == IF replace
                 THEN <<Call("free", 0, inputMemPtr[s], 0, ~badFree(h1, inputMemPtr[s]), "-"),
                        Call("malloc", 0, ptr, len, TRUE, "-")>>
                 ELSE <<>>
           c3 == <<Call("ktx2_transcoder_init", transcoderPtr[s], ptr, len,
                        handleHeld(handles, s, transcoderPtr[s]) /\ within(h3, s, ptr, len),
                        Bool(success))>>
       IN /\ heap' = h3
          /\ outputMemPtr' = [outputMemPtr EXCEPT ![s] = releasedPtr(@)]
          /\ outputMemSize' = [outputMemSize EXCEPT ![s] = 0]
          /\ inputMemPtr' = [inputMemPtr EXCEPT ![s] = ptr]
          /\ inputMemSize' = [inputMemSize EXCEPT ![s] = IF replace THEN len ELSE @]
          /\ inputBytes' = [inputBytes EXCEPT ![s] = set(IF replace THEN fresh(len) ELSE @, data)]
          /\ infoAttached' = detachAll(infoAttached, replace /\ grow)
          /\ initialized' = [initialized EXCEPT ![s] = initializedAfter(s, success)]
          /\ transcodingReady' = [transcodingReady EXCEPT ![s] = IF success THEN FALSE ELSE @]
          /\ resultCurrent' = [resultCurrent EXCEPT ![s] = FALSE]
          /\ lastOp' = [Op("init", s, Bool(success), c1 \o c2 \o c3) EXCEPT !.data = data]
          /\ UNCHANGED <<handles, constructed, transcoderPtr, disposed, infoPtr, infoBytes,
                         infoNulled, result>>

\* ------------------------------------------------------------ KTX2Header
Uint32Bytes == 4      \* Uint32Array.BYTES_PER_ELEMENT

\* (variant: the identifier is not counted)
HeaderWord_noIdentifier ==
  [vkFormat |-> 0, typeSize |-> 1, width |-> 2, height |-> 3,
   depth |-> 4, layers |-> 5, faces |-> 6, levels |-> 7]

\* the accessors: get vkFormat() { return this.dataView[3] } ...
HeaderWord ==
  [vkFormat |-> 3, typeSize |-> 4, width |-> 5, height |-> 6,
   depth |-> 7, layers |-> 8, faces |-> 9, levels |-> 10]

\* byte address that dataView[HeaderWord[f]] reads, for a view made at ptr
headerRead(ptr, f) == ptr + Uint32Bytes * HeaderWord[f]

\* (variant: ten word-size fields after the identifier)
KTX2HeaderSize_tenWords == 12 + 4 * 10 + 8 * 2

\* const KTX2HeaderSize = 12 + 4 * 13 + 8 * 2
KTX2HeaderSize == 12 + 4 * 13 + 8 * 2

\* byteLength of new Uint32Array(buffer, ptr, bytes / 4)
viewBytes(bytes) == Uint32Bytes * (bytes \div Uint32Bytes)

\* addresses the native get-header call may return
HeaderPtrs == {16, 64}

getHeader(s, ptr) ==
  /\ constructed[s]
  /\ UNCHANGED instanceVars
  /\ IF checkDisposed(s) \/ checkInitialized(s) THEN Throw("getHeader", s)
     ELSE /\ lastOp' = [Op("getHeader", s, "header",
                          <<Call("ktx2_transcoder_get_header", transcoderPtr[s], 0, 0,
                                 handleHeld(handles, s, transcoderPtr[s]), "-")>>)
                          EXCEPT !.read = [ptr |-> ptr, byteLength |-> viewBytes(KTX2HeaderSize)],
                                 !.value = [f \in DOMAIN HeaderWord |-> headerRead(ptr, f)]]
          /\ UNCHANGED <<nativeVars, fieldVars, transcodingReady, result, resultCurrent>>

getBasisTextureFormat(s) ==
  /\ constructed[s]
  /\ UNCHANGED instanceVars
  /\ IF checkDisposed(s) \/ checkInitialized(s) THEN Throw("getBasisTextureFormat", s)
     ELSE /\ lastOp' = Op("getBasisTextureFormat", s, "format",
                          <<Call("ktx2_transcoder_get_basis_tex_format", transcoderPtr[s], 0, 0,
                                 handleHeld(handles, s, transcoderPtr[s]), "-")>>)
          /\ UNCHANGED <<nativeVars, fieldVars, transcodingReady, result, resultCurrent>>

\* flags: what the native side finds for m_alpha_flag and m_iframe_flag
getImageLevelInfo(s, filled, flags) ==
  /\ constructed[s]
  /\ UNCHANGED instanceVars
  /\ IF checkDisposed(s) \/ checkInitialized(s) THEN Throw("getImageLevelInfo", s)
     ELSE LET bytes == filledBytes(s, byteOffset(s), filled, flags)
          IN /\ infoBytes' = [infoBytes EXCEPT ![s] = bytes]
             /\ lastOp' = [Op("getImageLevelInfo", s, IF filled THEN "info" ELSE "null",
                              <<fill(s, filled)>>)
                             EXCEPT !.read = IF filled THEN flags ELSE <<>>,
                                    !.value = IF filled
                                              THEN [alphaFlag |-> flagRead(infoAttached[s], bytes, 12),
                                                    iframeFlag |-> flagRead(infoAttached[s], bytes, 13)]
                                              ELSE <<>>]
             /\ UNCHANGED <<heap, handles, inputBytes, fieldVars, transcodingReady, result,
                            resultCurrent>>

startTranscoding(s, success) ==
  /\ constructed[s]
  /\ UNCHANGED instanceVars
  /\ IF checkDisposed(s) \/ checkInitialized(s) THEN Throw("startTranscoding", s)
     ELSE /\ lastOp' = Op("startTranscoding", s, Bool(success),
                          <<Call("ktx2_transcoder_start_transcoding", transcoderPtr[s], 0, 0,
                                 handleHeld(handles, s, transcoderPtr[s]), Bool(success))>>)
          /\ transcodingReady' = [transcodingReady EXCEPT ![s] = IF success THEN TRUE ELSE @]
          /\ UNCHANGED <<nativeVars, fieldVars, result, resultCurrent>>

\* (variant: the result of fill is not looked at)
fillFailed_ignored(filled) == FALSE

\* if (!imageLevelInfo.fill(...)) return null
fillFailed(filled) == ~filled

\* (variant: the result of the native transcode is not looked at)
transcodeFailed_ignored(success) == FALSE

\* if (!success) return null
transcodeFailed(success) == ~success

\* ------------------------------------------------------ JavaScript values
\* a number (kept as a fraction, since / is not integer division), or
\* undefined, or NaN
Num(n) == [t |-> "number", num |-> n, den |-> 1]
Undefined == [t |-> "undefined", num |-> 0, den |-> 1]
NaN == [t |-> "NaN", num |-> 0, den |-> 1]

\* a * b
times(a, b) ==
  IF a.t = "number" /\ b.t = "number" /\ a.den = 1 /\ b.den = 1
  THEN Num(a.num * b.num) ELSE NaN

\* a / b for integers a >= 0, b > 0
quotient(a, b) ==
  IF a % b = 0 THEN Num(a \div b) ELSE [t |-> "number", num |-> a, den |-> b]

\* `x = 0` in a destructuring pattern: the default replaces undefined only
default(v, d) == IF v.t = "undefined" THEN d ELSE v

\* this.dataView[i] of the level info: undefined once the view is detached
dataView(s, word) == IF infoAttached[s] THEN Num(word) ELSE Undefined

\* (variant: the uncompressed branch passes no pitch and no row count)
transcodeArgs_noPitch(hnd, o, ptr, origWidth, origHeight, outputSize, uncompressed, bytesPerBlock) ==
  LET head == <<Num(hnd), default(o.level, Num(0)), default(o.layer, Num(0)),
                default(o.face, Num(0)), Num(ptr)>>
      flags == default(o.decodeFlags, Num(0))
  IN IF uncompressed
     THEN head \o <<times(origWidth, origHeight), o.format, flags,
                    Num(0), Num(0), Num(-1), Num(-1), Num(0)>>
     ELSE head \o <<quotient(outputSize, bytesPerBlock), o.format, flags,
                    Num(0), Num(0), Num(-1), Num(-1), Num(0)>>

\* the 13 arguments of ktx2_transcoder_transcode_image_level
transcodeArgs(hnd, o, ptr, origWidth, origHeight, outputSize, uncompressed, bytesPerBlock) ==
  LET head == <<Num(hnd), default(o.level, Num(0)), default(o.layer, Num(0)),
                default(o.face, Num(0)), Num(ptr)>>
      flags == default(o.decodeFlags, Num(0))
  IN IF uncompressed
     THEN head \o <<times(origWidth, origHeight), o.format, flags,
                    origWidth, origHeight, Num(-1), Num(-1), Num(0)>>
     ELSE head \o <<quotient(outputSize, bytesPerBlock), o.format, flags,
                    Num(0), Num(0), Num(-1), Num(-1), Num(0)>>

\* the precondition transcodeImageLevel checks after checkDisposed
transcodePrecondition(s) == checkInitialized(s)

\* heap.subarray(outputMemPtr, outputMemPtr + outputSize).length
dataLength(capacity, outputSize) == outputSize

\* transcodeImageLevel from the reads of origWidth and origHeight on.
\* options: what the caller passes; image: what the info block holds and the
\* native side answers about the format (orig_width, orig_height as the last
\* fill that wrote them left them, is_uncompressed, bytes per block)
afterFill(s, options, image, filled, outputSize, grow, success) ==
       LET origWidth == dataView(s, image.origWidth)
           origHeight == dataView(s, image.origHeight)
           replace == tooSmall(outputMemSize[s], outputSize)
           h1 == IF replace THEN releaseOld(heap, outputMemPtr[s]) ELSE heap
           ptr == IF replace THEN mallocPtr(h1) ELSE outputMemPtr[s]
           h2 == IF replace THEN malloc(h1, outputSize, s) ELSE h1
           c1 == <<fill(s, filled),
                   Call("basis_compute_transcoded_image_size_in_bytes", 0, 0, outputSize, TRUE, "-")>>
           c2 == IF replace
                 THEN <<Call("free", 0, outputMemPtr[s], 0, ~badFree(heap, outputMemPtr[s]), "-"),
                        Call("malloc", 0, ptr, outputSize, TRUE, "-")>>
                 ELSE <<>>
           c3 == <<Call("basis_transcoder_format_is_uncompressed", 0, 0, 0, TRUE, "-")>>
           c4 == IF image.uncompressed THEN <<>>
                 ELSE <<Call("basis_get_bytes_per_block_or_pixel", 0, 0, 0, TRUE, "-")>>
           c5 == <<Call("ktx2_transcoder_transcode_image_level", transcoderPtr[s], ptr, outputSize,
                        handleHeld(handles, s, transcoderPtr[s]) /\ within(h2, s, ptr, outputSize),
                        Bool(success))>>
       IN /\ heap' = h2
          /\ infoBytes' = [infoBytes EXCEPT ![s] = filledBytes(s, byteOffset(s), filled, NoFlags)]
          /\ outputMemPtr' = [outputMemPtr EXCEPT ![s] = ptr]
          /\ outputMemSize' = [outputMemSize EXCEPT ![s] = IF replace THEN outputSize ELSE @]
          /\ infoAttached' = detachAll(infoAttached, replace /\ grow)
          /\ result' = [result EXCEPT ![s] =
                          IF transcodeFailed(success) THEN @
                          ELSE [ptr |-> ptr,
                                len |-> dataLength(IF replace THEN outputSize
                                                   ELSE outputMemSize[s], outputSize)]]
          /\ resultCurrent' = [resultCurrent EXCEPT ![s] = ~transcodeFailed(success)]
          /\ lastOp' = [Op("transcodeImageLevel", s,
                           IF transcodeFailed(success) THEN "null" ELSE "result",
                           c1 \o c2 \o c3 \o c4 \o c5)
                          EXCEPT !.options = options,
                                 !.read = [origWidth |-> origWidth, origHeight |-> origHeight,
                                           outputSize |-> outputSize, image |-> image],
                                 !.args = transcodeArgs(transcoderPtr[s], options, ptr,
                                                        origWidth, origHeight, outputSize,
                                                        image.uncompressed, image.bytesPerBlock),
                                 !.value = IF transcodeFailed(success) THEN <<>>
                                           ELSE [width |-> origWidth, height |-> origHeight]]
          /\ UNCHANGED <<handles, constructed, transcoderPtr, inputMemPtr, inputMemSize, inputBytes,
                         initialized, disposed, infoPtr, infoNulled, transcodingReady>>

transcodeImageLevel(s, options, image, filled, outputSize, grow, success) ==
  /\ constructed[s]
  /\ UNCHANGED instanceVars
  /\ IF checkDisposed(s) \/ transcodePrecondition(s) THEN Throw("transcodeImageLevel", s)
     ELSE IF fillFailed(filled)
     THEN /\ lastOp' = [Op("transcodeImageLevel", s, "null", <<fill(s, filled)>>)
                          EXCEPT !.options = options]
          /\ resultCurrent' = [resultCurrent EXCEPT ![s] = FALSE]
          /\ UNCHANGED <<nativeVars, fieldVars, transcodingReady, result>>
     ELSE afterFill(s, options, image, filled, outputSize, grow, success)

\* KTX2ImageLevelInfo.dispose of the earlier revisions ends with
\* `(this.dataView as any) = null`; the current one keeps the view
nullsView == revision # "current"

\* (variant: dispose without its early return)
alreadyDisposed_never(s) == FALSE

\* if (this.disposed) return
alreadyDisposed(s) == disposed[s]

dispose(s) ==
  /\ constructed[s]
  /\ UNCHANGED instanceVars
  /\ IF alreadyDisposed(s)
     THEN /\ lastOp' = Op("dispose", s, "void", <<>>)
          /\ UNCHANGED <<nativeVars, fieldVars, transcodingReady, result, resultCurrent>>
     ELSE
       LET hnd == transcoderPtr[s]
           h1 == free(heap, inputMemPtr[s])
           h2 == free(h1, outputMemPtr[s])
           h3 == free(h2, byteOffset(s))
           c0 == IF hnd # 0
                 THEN <<Call("ktx2_transcoder_delete", hnd, 0, 0, handleHeld(handles, s, hnd), "-")>>
                 ELSE <<>>
           c1 == <<Call("free", 0, inputMemPtr[s], 0, ~badFree(heap, inputMemPtr[s]), "-"),
                   Call("free", 0, outputMemPtr[s], 0, ~badFree(h1, outputMemPtr[s]), "-"),
                   Call("free", 0, byteOffset(s), 0, ~badFree(h2, byteOffset(s)), "-")>>
       IN /\ handles' = IF hnd \in Handles THEN [handles EXCEPT ![hnd] = 0] ELSE handles
          /\ heap' = h3
          /\ transcoderPtr' = [transcoderPtr EXCEPT ![s] = 0]
          /\ inputMemPtr' = [inputMemPtr EXCEPT ![s] = 0]
          /\ inputMemSize' = [inputMemSize EXCEPT ![s] = 0]
          /\ inputBytes' = [inputBytes EXCEPT ![s] = <<>>]
          /\ outputMemPtr' = [outputMemPtr EXCEPT ![s] = 0]
          /\ outputMemSize' = [outputMemSize EXCEPT ![s] = 0]
          /\ initialized' = [initialized EXCEPT ![s] = FALSE]
          /\ disposed' = [disposed EXCEPT ![s] = TRUE]
          /\ resultCurrent' = [resultCurrent EXCEPT ![s] = FALSE]
          /\ infoNulled' = [infoNulled EXCEPT ![s] = nullsView]
          /\ lastOp' = Op("dispose", s, "void", c0 \o c1)
          /\ UNCHANGED <<constructed, infoPtr, infoBytes, infoAttached, transcodingReady, result>>

\* ------------------------------------------------------------ specification
NoOp == [op |-> "none", s |-> 0, ret |-> "none", calls |-> <<>>,
         pre |-> [initialized |-> FALSE, disposed |-> FALSE, ready |-> FALSE,
                  current |-> FALSE],
         data |-> <<>>, options |-> <<>>, read |-> <<>>, args |-> <<>>, value |-> <<>>]

SessionsEmpty ==
  /\ heap = [a \in Addr |-> FreeBlock]
  /\ inputBytes = [s \in Sessions |-> <<>>]
  /\ infoBytes = [s \in Sessions |-> uninitialised(0)]
  /\ handles = [x \in Handles |-> 0]
  /\ constructed = [s \in Sessions |-> FALSE]
  /\ transcoderPtr = [s \in Sessions |-> 0]
  /\ inputMemPtr = [s \in Sessions |-> 0]
  /\ inputMemSize = [s \in Sessions |-> 0]
  /\ outputMemPtr = [s \in Sessions |-> 0]
  /\ outputMemSize = [s \in Sessions |-> 0]
  /\ initialized = [s \in Sessions |-> FALSE]
  /\ disposed = [s \in Sessions |-> FALSE]
  /\ infoPtr = [s \in Sessions |-> 0]
  /\ infoAttached = [s \in Sessions |-> FALSE]
  /\ infoNulled = [s \in Sessions |-> FALSE]
  /\ transcodingReady = [s \in Sessions |-> FALSE]
  /\ result = [s \in Sessions |-> [ptr |-> 0, len |-> 0]]
  /\ resultCurrent = [s \in Sessions |-> FALSE]
  /\ lastOp = NoOp

\* sessions are driven after one caller's `await getInstance(...)` resolved
Init ==
  /\ SessionsEmpty
  /\ instance = 1
  /\ pc = [c \in Callers |-> IF c = 1 THEN "resolved" ELSE "idle"]
  /\ got = [c \in Callers |-> IF c = 1 THEN 1 ELSE 0]
  /\ nModules = 1
  /\ nCtor = 1
  /\ unknownAt = 0
  /\ revision = "current"

\* Session 1 is the session driven through its operations; the other session
\* objects are created only under SpecShared.
Driven == {1}

\* the heap can grow only in a call that allocates
GrowChoices(capacity, required) ==
  IF tooSmall(capacity, required) THEN BOOLEAN ELSE {FALSE}

\* the size query and the native transcode answer only when they are called
SizeChoices(filled) == IF fillFailed(filled) THEN {0} ELSE OutSizes
SuccessChoices(filled) == IF fillFailed(filled) THEN {FALSE} ELSE BOOLEAN

\* what a caller passes to transcodeImageLevel: the format alone, or every
\* option with a value of its own
Options(format, level, layer, face, decodeFlags) ==
  [format |-> format, level |-> level, layer |-> layer, face |-> face,
   decodeFlags |-> decodeFlags]
FormatOnly == Options(Num(13), Undefined, Undefined, Undefined, Undefined)
AllOptions == Options(Num(2), Num(1), Num(3), Num(5), Num(4))

\* what the native side answers about the image and the format of one call
Image(origWidth, origHeight, uncompressed, bytesPerBlock) ==
  [origWidth |-> origWidth, origHeight |-> origHeight,
   uncompressed |-> uncompressed, bytesPerBlock |-> bytesPerBlock]
Pixels == Image(2, 1, TRUE, 1)
Images == {Pixels, Image(1, 2, TRUE, 1), Image(2, 1, FALSE, 1), Image(2, 1, FALSE, 2)}

Next ==
  \/ \E s \in Driven, grow \in BOOLEAN : createKTX2Transcoder(s, grow, 0)
  \/ \E s \in Driven, data \in Datas, success \in BOOLEAN :
       \E grow \in GrowChoices(inputMemSize[s], Len(data)) :
         init(s, data, grow, success)
  \/ \E s \in Driven, ptr \in HeaderPtrs : getHeader(s, ptr)
  \/ \E s \in Driven : getBasisTextureFormat(s)
  \/ \E s \in Driven, filled \in BOOLEAN : getImageLevelInfo(s, filled, NoFlags)
  \/ \E s \in Driven, success \in BOOLEAN : startTranscoding(s, success)
  \/ \E s \in Driven, filled \in BOOLEAN :
       \E outputSize \in SizeChoices(filled), success \in SuccessChoices(filled) :
         \E grow \in GrowChoices(outputMemSize[s], outputSize) :
           transcodeImageLevel(s, FormatOnly, Pixels, filled, outputSize, grow, success)
  \/ \E s \in Driven : dispose(s)

Spec == Init /\ [][Next]_vars

\* ---------------------------------------- several sessions on one module
\* Two session objects made from the same funcs, their allocating operations
\* interleaved in every order. The native calls succeed, so every call goes
\* through its allocation, and the heap does not grow (growth moves no block;
\* what it does to the views is followed under Spec).
SharedSessions == {1, 2}
SharedDatas == {d \in Datas : 1 <= Len(d) /\ Len(d) <= 2 /\ d[1] = 1}
SharedSizes == {n \in OutSizes : 1 <= n /\ n <= 2}
NextShared ==
  \/ \E s \in SharedSessions : createKTX2Transcoder(s, FALSE, 0)
  \/ \E s \in SharedSessions, data \in SharedDatas : init(s, data, FALSE, TRUE)
  \/ \E s \in SharedSessions, outputSize \in SharedSizes :
       transcodeImageLevel(s, FormatOnly, Pixels, TRUE, outputSize, FALSE, TRUE)
  \/ \E s \in SharedSessions : dispose(s)

SpecShared == Init /\ [][NextShared]_vars

\* ------------------------------------------ one session, varied transcodes
\* One session whose init and startTranscoding succeed, transcoding with
\* every option set, image answer, size and native result.
NextImages ==
  \/ \E s \in Driven, grow \in BOOLEAN : createKTX2Transcoder(s, grow, 0)
  \/ \E s \in Driven, data \in SharedDatas :
       \E grow \in GrowChoices(inputMemSize[s], Len(data)) : init(s, data, grow, TRUE)
  \/ \E s \in Driven : startTranscoding(s, TRUE)
  \/ \E s \in Driven, options \in {FormatOnly, AllOptions}, image \in Images,
        filled \in BOOLEAN :
       \E outputSize \in SizeChoices(filled), success \in SuccessChoices(filled) :
         \E grow \in GrowChoices(outputMemSize[s], outputSize) :
           transcodeImageLevel(s, options, image, filled, outputSize, grow, success)
  \/ \E s \in Driven : dispose(s)

SpecImages == Init /\ [][NextImages]_vars

\* --------------------------------------------- one session, level-info flags
\* One session on a heap that does not grow, its block allocated over zero or
\* non-zero bytes, the native fill answering every combination of the flags.
Leftover == {0, 1}
NextInfo ==
  \/ \E s \in Driven, byte \in Leftover : createKTX2Transcoder(s, FALSE, byte)
  \/ \E s \in Driven, data \in SharedDatas : init(s, data, FALSE, TRUE)
  \/ \E s \in Driven, success \in BOOLEAN : startTranscoding(s, success)
  \/ \E s \in Driven, filled \in BOOLEAN, flags \in FlagAnswers :
       getImageLevelInfo(s, filled, flags)
  \/ \E s \in Driven : dispose(s)

SpecInfo == Init /\ [][NextInfo]_vars

\* ------------------------------------------------------- earlier revisions
\* The second KTX2Transcoder class of basis-universal-transcoder ("arena")
\* holds its arenas as Uint8Array views; on a heap that does not grow a view's
\* byteOffset and length are the pointer and the size the current revision
\* keeps, and its constructor, init, startTranscoding and dispose then act as
\* the current ones do. Its transcodeImageLevel does not look at the result
\* of the fill.
arenaTranscodeImageLevel(s, options, image, filled, outputSize, success) ==
  /\ constructed[s]
  /\ UNCHANGED instanceVars
  /\ IF checkDisposed(s) \/ checkInitialized(s) THEN Throw("transcodeImageLevel", s)
     ELSE afterFill(s, options, image, filled, outputSize, FALSE, success)

\* The basis-transcoder package ("package"): dataPtr is held in inputMemPtr;
\* the class has no disposed flag and no output arena.
packageInit(s, data, success) ==
  /\ constructed[s]
  /\ UNCHANGED instanceVars
  /\ LET len == Len(data)
         old == inputMemPtr[s]
         h1 == IF old # 0 THEN free(heap, old) ELSE heap
         ptr == mallocPtr(h1)
         h2 == malloc(h1, len, s)
         c1 == IF old # 0 THEN <<Call("free", 0, old, 0, ~badFree(heap, old), "-")>> ELSE <<>>
         c2 == <<Call("malloc", 0, ptr, len, TRUE, "-"),
                 Call("ktx2_transcoder_init", transcoderPtr[s], ptr, len,
                      handleHeld(handles, s, transcoderPtr[s]) /\ within(h2, s, ptr, len),
                      Bool(success))>>
     IN /\ heap' = h2
        /\ inputMemPtr' = [inputMemPtr EXCEPT ![s] = ptr]
        /\ inputBytes' = [inputBytes EXCEPT ![s] = data]
        /\ initialized' = [initialized EXCEPT ![s] = IF success THEN TRUE ELSE @]
        /\ transcodingReady' = [transcodingReady EXCEPT ![s] = IF success THEN FALSE ELSE @]
        /\ lastOp' = [Op("init", s, Bool(success), c1 \o c2) EXCEPT !.data = data]
        /\ UNCHANGED <<handles, infoBytes, constructed, transcoderPtr, inputMemSize,
                       outputMemPtr, outputMemSize, disposed, infoPtr, infoAttached,
                       infoNulled, result, resultCurrent>>

packageStartTranscoding(s, success) ==
  /\ constructed[s]
  /\ UNCHANGED instanceVars
  /\ IF checkInitialized(s) THEN Throw("startTranscoding", s)
     ELSE /\ lastOp' = Op("startTranscoding", s, Bool(success),
                          <<Call("ktx2_transcoder_start_transcoding", transcoderPtr[s], 0, 0,
                                 handleHeld(handles, s, transcoderPtr[s]), Bool(success))>>)
          /\ transcodingReady' = [transcodingReady EXCEPT ![s] = IF success THEN TRUE ELSE @]
          /\ UNCHANGED <<nativeVars, fieldVars, result, resultCurrent>>

\* imageLevelInfo.init reads this.dataView.byteOffset: a TypeError once
\* dispose has set dataView to null
packageTranscodeImageLevel(s, options, image, filled, outputSize, success) ==
  /\ constructed[s]
  /\ UNCHANGED instanceVars
  /\ IF checkInitialized(s) \/ infoNulled[s] THEN Throw("transcodeImageLevel", s)
     ELSE
       LET origWidth == dataView(s, image.origWidth)
           origHeight == dataView(s, image.origHeight)
           ptr == mallocPtr(heap)
           h1 == malloc(heap, outputSize, s)
           c1 == <<fill(s, filled),
                   Call("basis_compute_transcoded_image_size_in_bytes", 0, 0, outputSize, TRUE, "-"),
                   Call("malloc", 0, ptr, outputSize, TRUE, "-"),
                   Call("basis_transcoder_format_is_uncompressed", 0, 0, 0, TRUE, "-")>>
           c2 == IF image.uncompressed THEN <<>>
                 ELSE <<Call("basis_get_bytes_per_block_or_pixel", 0, 0, 0, TRUE, "-")>>
           c3 == <<Call("transcode_image_level", transcoderPtr[s], ptr, outputSize,
                        handleHeld(handles, s, transcoderPtr[s]) /\ within(h1, s, ptr, outputSize),
                        Bool(success))>>
           c4 == IF success
                 THEN <<Call("basis_transcoder_format_has_alpha", 0, 0, 0, TRUE, "-")>>
                 ELSE <<>>
           c5 == <<Call("free", 0, ptr, 0, ~badFree(h1, ptr), "-")>>
       IN /\ heap' = free(h1, ptr)
          /\ infoBytes' = [infoBytes EXCEPT ![s] = filledBytes(s, byteOffset(s), filled, NoFlags)]
          /\ lastOp' = [Op("transcodeImageLevel", s, IF success THEN "result" ELSE "null",
                           c1 \o c2 \o c3 \o c4 \o c5)
                          EXCEPT !.options = options,
                                 !.read = [origWidth |-> origWidth, origHeight |-> origHeight,
                                           outputSize |-> outputSize, image |-> image],
                                 !.args = transcodeArgs(transcoderPtr[s], options, ptr,
                                                        origWidth, origHeight, outputSize,
                                                        image.uncompressed, image.bytesPerBlock),
                                 !.value = IF success
                                           THEN [width |-> origWidth, height |-> origHeight]
                                           ELSE <<>>]
          /\ UNCHANGED <<handles, inputBytes, fieldVars, transcodingReady, result, resultCurrent>>

\* dispose has no guard; its last statement, imageLevelInfo.dispose(), reads
\* this.dataView.byteOffset and then sets dataView to null
packageDispose(s) ==
  /\ constructed[s]
  /\ UNCHANGED instanceVars
  /\ LET hnd == transcoderPtr[s]
         dataPtr == inputMemPtr[s]
         h1 == IF dataPtr # 0 THEN free(heap, dataPtr) ELSE heap
         c0 == IF hnd # 0
               THEN <<Call("ktx2_transcoder_delete", hnd, 0, 0, handleHeld(handles, s, hnd), "-")>>
               ELSE <<>>
         c1 == IF dataPtr # 0
               THEN <<Call("free", 0, dataPtr, 0, ~badFree(heap, dataPtr), "-")>>
               ELSE <<>>
         c2 == IF infoNulled[s] THEN <<>>
               ELSE <<Call("free", 0, byteOffset(s), 0, ~badFree(h1, byteOffset(s)), "-")>>
     IN /\ handles' = IF hnd \in Handles THEN [handles EXCEPT ![hnd] = 0] ELSE handles
        /\ heap' = IF infoNulled[s] THEN h1 ELSE free(h1, byteOffset(s))
        /\ transcoderPtr' = [transcoderPtr EXCEPT ![s] = 0]
        /\ inputMemPtr' = [inputMemPtr EXCEPT ![s] = 0]
        /\ inputBytes' = [inputBytes EXCEPT ![s] = <<>>]
        /\ initialized' = [initialized EXCEPT ![s] = FALSE]
        /\ infoNulled' = [infoNulled EXCEPT ![s] = TRUE]
        /\ lastOp' = [Op("dispose", s, IF infoNulled[s] THEN "throw" ELSE "void", c0 \o c1 \o c2)
                        EXCEPT !.read = [nulled |-> infoNulled[s]]]
        /\ UNCHANGED <<infoBytes, constructed, inputMemSize, outputMemPtr, outputMemSize,
                       disposed, infoPtr, infoAttached, transcodingReady, result,
                       resultCurrent>>

InitEarlier ==
  /\ SessionsEmpty
  /\ instance = 1
  /\ pc = [c \in Callers |-> IF c = 1 THEN "resolved" ELSE "idle"]
  /\ got = [c \in Callers |-> IF c = 1 THEN 1 ELSE 0]
  /\ nModules = 1
  /\ nCtor = 1
  /\ unknownAt = 0
  /\ revision \in {"arena", "package"}

NextArena ==
  \/ \E s \in Driven : createKTX2Transcoder(s, FALSE, 0)
  \/ \E s \in Driven, data \in SharedDatas, success \in BOOLEAN : init(s, data, FALSE, success)
  \/ \E s \in Driven, success \in BOOLEAN : startTranscoding(s, success)
  \/ \E s \in Driven, filled \in BOOLEAN, outputSize \in SharedSizes, success \in BOOLEAN :
       arenaTranscodeImageLevel(s, FormatOnly, Pixels, filled, outputSize, success)
  \/ \E s \in Driven : dispose(s)

NextPackage ==
  \/ \E s \in Driven : createKTX2Transcoder(s, FALSE, 0)
  \/ \E s \in Driven, data \in SharedDatas, success \in BOOLEAN : packageInit(s, data, success)
  \/ \E s \in Driven, success \in BOOLEAN : packageStartTranscoding(s, success)
  \/ \E s \in Driven, filled \in BOOLEAN, outputSize \in SharedSizes, success \in BOOLEAN :
       packageTranscodeImageLevel(s, FormatOnly, Pixels, filled, outputSize, success)
  \/ \E s \in Driven : packageDispose(s)

NextEarlier ==
  \/ revision = "arena" /\ NextArena
  \/ revision = "package" /\ NextPackage

SpecEarlier == InitEarlier /\ [][NextEarlier]_vars

\* ------------------------------------------------- BasisUniversal singleton
MaxLoads == 4         \* module instantiations started in one run

\* getInstance up to its await: return the stored instance, or start
\* instantiating the native module and suspend
getInstance(c) ==
  /\ pc[c] = "idle"
  /\ IF instance # 0
     THEN /\ pc' = [pc EXCEPT ![c] = "resolved"]
          /\ got' = [got EXCEPT ![c] = instance]
          /\ UNCHANGED <<instance, nModules, nCtor>>
     ELSE /\ nModules < MaxLoads
          /\ nModules' = nModules + 1
          /\ pc' = [pc EXCEPT ![c] = "awaiting"]
          /\ UNCHANGED <<instance, got, nCtor>>
  /\ UNCHANGED <<unknownAt, revision, sessionVars>>

\* (variant: the instance is stored before the constructor has finished)
storeReached_early(loaded, threw) == loaded

\* `BasisUniversal.instance = inst` is reached when the awaited load resolved
\* and `new BasisUniversal(module)` did not throw
storeReached(loaded, threw) == loaded /\ ~threw

\* getInstance after its await: new BasisUniversal(module), store, return;
\* an exception of the constructor rejects the promise before the store
resumeGetInstance(c, loaded) ==
  /\ pc[c] = "awaiting"
  /\ IF storeReached(loaded, getAllBasisFuncs(protos).threw)
     THEN /\ nCtor' = nCtor + 1
          /\ instance' = nCtor + 1
          /\ got' = [got EXCEPT ![c] = nCtor + 1]
          /\ pc' = [pc EXCEPT ![c] = "resolved"]
          /\ UNCHANGED nModules
     ELSE /\ pc' = [pc EXCEPT ![c] = "rejected"]
          /\ UNCHANGED <<instance, got, nModules, nCtor>>
  /\ UNCHANGED <<unknownAt, revision, sessionVars>>

\* the caller, having its answer, is free to call getInstance again
callAgain(c) ==
  /\ pc[c] \in {"resolved", "rejected"}
  /\ pc' = [pc EXCEPT ![c] = "idle"]
  /\ got' = [got EXCEPT ![c] = 0]
  /\ UNCHANGED <<instance, nModules, nCtor, unknownAt, revision, sessionVars>>

InitInstance ==
  /\ SessionsEmpty
  /\ instance = 0
  /\ pc = [c \in Callers |-> "idle"]
  /\ got = [c \in Callers |-> 0]
  /\ nModules = 0
  /\ nCtor = 0
  /\ unknownAt = 0
  /\ revision = "current"

NextInstance ==
  \/ \E c \in Callers : getInstance(c)
  \/ \E c \in Callers, loaded \in BOOLEAN : resumeGetInstance(c, loaded)
  \/ \E c \in Callers : callAgain(c)
  \/ \E s \in Driven, grow \in BOOLEAN : createKTX2Transcoder(s, grow, 0)

SpecInstance == InitInstance /\ [][NextInstance]_vars

\* the same run of getInstance callers over every prototype table
InitBinding ==
  /\ SessionsEmpty
  /\ instance = 0
  /\ pc = [c \in Callers |-> "idle"]
  /\ got = [c \in Callers |-> 0]
  /\ nModules = 0
  /\ nCtor = 0
  /\ unknownAt \in 0..Len(BasisFuncProtos)
  /\ revision = "current"

SpecBinding == InitBinding /\ [][NextInstance]_vars

\* ===================================================================== claims
QueryOps == {"getHeader", "getBasisTextureFormat", "getImageLevelInfo", "startTranscoding"}
GuardedOps == QueryOps \cup {"init", "transcodeImageLevel"}

TranscodeCall == "ktx2_transcoder_transcode_image_level"

\* the blocks session s holds in the allocator
Blocks(h, s) == {a \in Addr : holds(h, s, a)}

\* C1: a transcodeImageLevel call made when no startTranscoding call has
\* returned true since the most recent successful init raises an error and
\* issues no native transcode call.
C1_TranscodeRequiresStart ==
  (lastOp.op = "transcodeImageLevel" /\ ~lastOp.pre.ready)
    => (lastOp.ret = "throw" /\ TranscodeCall \notin Fns(lastOp.calls))

\* C2 (as claimed): an init whose native init reports failure returns false
\* and leaves the initialized state of the session as it was before the call.
C2_FailedInitKeepsState ==
  (lastOp.op = "init" /\ ~lastOp.pre.disposed /\ lastOp.ret # "true")
    => (lastOp.ret = "false" /\ initialized[lastOp.s] = lastOp.pre.initialized)

\* C2 (amended): an init whose native init reports failure returns false
\* without raising and leaves the session not initialized, whatever it was
\* before; getHeader, getBasisTextureFormat, getImageLevelInfo and
\* startTranscoding on a session that is not initialized raise a usage error.
C2_FailedInitUninitializes ==
  /\ (lastOp.op = "init" /\ ~lastOp.pre.disposed /\ lastOp.ret # "true")
       => (lastOp.ret = "false" /\ ~initialized[lastOp.s])
  /\ (lastOp.op \in QueryOps /\ ~lastOp.pre.initialized)
       => (lastOp.ret = "throw" /\ lastOp.calls = <<>>)

\* a failed init has just run on a session that was initialized
C2_Witness ==
  lastOp.op = "init" /\ lastOp.ret = "false" /\ lastOp.pre.initialized /\ lastOp.pre.ready

\* C3: when getInstance calls overlap, the native module is instantiated at
\* most once, the BasisUniversal constructor runs at most once and every
\* caller receives the same instance.
C3_SingleInstance ==
  /\ Cardinality({c \in Callers : pc[c] = "awaiting"}) <= 1
  /\ nCtor <= 1
  /\ \A c, d \in Callers : (pc[c] = "resolved" /\ pc[d] = "resolved") => got[c] = got[d]

\* C4: Disposed is terminal: on a disposed session init, getHeader,
\* getBasisTextureFormat, getImageLevelInfo, startTranscoding and
\* transcodeImageLevel raise a usage error and issue no native call and no
\* allocation, and the session never leaves the Disposed state.
C4_DisposedTerminal ==
  /\ []((lastOp.op \in GuardedOps /\ lastOp.pre.disposed)
          => (lastOp.ret = "throw" /\ lastOp.calls = <<>>))
  /\ [][\A s \in Sessions : disposed[s] =>
          /\ disposed'[s]
          /\ Blocks(heap', s) = Blocks(heap, s)
          /\ handles' = handles]_vars

\* a guarded operation has just been refused on a disposed session
C4_Witness ==
  lastOp.op = "transcodeImageLevel" /\ lastOp.pre.disposed /\ lastOp.ret = "throw"

\* C5: a second or later dispose() raises no error, issues no native delete
\* and no free, and leaves the session state as the first dispose() left it.
C5_DisposeIdempotent ==
  /\ []((lastOp.op = "dispose" /\ lastOp.pre.disposed)
          => (lastOp.ret = "void" /\ lastOp.calls = <<>>))
  /\ [][(lastOp'.op = "dispose" /\ lastOp'.pre.disposed)
          => UNCHANGED <<nativeVars, fieldVars>>]_vars

\* dispose() has just run on a session that was already disposed
C5_Witness == lastOp.op = "dispose" /\ lastOp.pre.disposed /\ disposed[lastOp.s]

\* C6: once dispose() has returned, the native handle of the session has been
\* deleted and every block the session obtained from the allocator has been
\* freed, none freed twice and none left allocated.
C6_AllReleasedOnce ==
  /\ \A s \in Sessions : disposed[s] =>
       /\ Blocks(heap, s) = {}
       /\ \A x \in Handles : handles[x] # s
  /\ \A i \in 1..Len(lastOp.calls) :
       lastOp.calls[i].fn \in {"free", "ktx2_transcoder_delete"} => lastOp.calls[i].ok

\* C7: no operation passes a native entry point a deleted handle or the
\* address of a freed block: handle, input base, output base and info pointer
\* always refer to resources the session holds at the time of the call.
C7_NoStalePointer ==
  \A i \in 1..Len(lastOp.calls) : lastOp.calls[i].ok

\* C8: the data view returned by a successful transcodeImageLevel starts at
\* the output arena's base and stays inside the session's live output block
\* until the next transcodeImageLevel, init or dispose; getHeader,
\* getBasisTextureFormat, getImageLevelInfo and startTranscoding never free,
\* move or resize the output arena.
C8_ResultInsideOutputArena ==
  /\ [](\A s \in Sessions : resultCurrent[s] =>
          /\ result[s].ptr = outputMemPtr[s]
          /\ result[s].len <= outputMemSize[s]
          /\ result[s].len > 0 =>
               (holds(heap, s, result[s].ptr) /\ heap[result[s].ptr].size = outputMemSize[s]))
  /\ [][lastOp'.op \in QueryOps
          => UNCHANGED <<heap, outputMemPtr, outputMemSize, resultCurrent, result>>]_vars

\* a query has run while a non-empty result view was current
C8_Witness ==
  /\ lastOp.op \in QueryOps /\ lastOp.ret # "throw"
  /\ resultCurrent[lastOp.s] /\ result[lastOp.s].len > 0

\* C9: every init on a non-disposed session, whether the native init succeeds
\* or fails, releases the output arena: afterwards the output capacity and
\* base are 0 and the session holds no block but its info and input blocks.
C9_InitReleasesOutput ==
  (lastOp.op = "init" /\ ~lastOp.pre.disposed) =>
    /\ outputMemSize[lastOp.s] = 0
    /\ outputMemPtr[lastOp.s] = 0
    /\ lastOp.calls[1].fn = "free"
    /\ Blocks(heap, lastOp.s) \subseteq {infoPtr[lastOp.s], inputMemPtr[lastOp.s]}

\* an init whose native init failed has just released an output block
C9_Witness ==
  /\ lastOp.op = "init" /\ lastOp.ret = "false"
  /\ lastOp.calls[1].fn = "free" /\ lastOp.calls[1].ptr # 0

\* the first native call of the last operation was a level-info fill that failed
FillFailedIn(o) ==
  /\ o.op = "transcodeImageLevel"
  /\ Len(o.calls) >= 1
  /\ o.calls[1].fn = "ktx2_transcoder_get_image_level_info"
  /\ o.calls[1].res = "false"

\* C10: when the level-info fill fails, transcodeImageLevel returns null
\* without raising, performs no size query, no allocation and no native
\* transcode call, and leaves the lifecycle state and both arenas unchanged.
C10_FillFailureIsClean ==
  /\ [](FillFailedIn(lastOp) => (lastOp.ret = "null" /\ Len(lastOp.calls) = 1))
  /\ [][FillFailedIn(lastOp')
          => UNCHANGED <<heap, handles, initialized, disposed, transcodingReady,
                         inputMemPtr, inputMemSize, outputMemPtr, outputMemSize>>]_vars

\* a fill has just failed on a session in TranscodingReady that holds an output block
C10_Witness ==
  FillFailedIn(lastOp) /\ lastOp.pre.ready /\ outputMemSize[lastOp.s] > 0

\* the operations whose native entry point answers with a boolean
FallibleOps == {"init", "startTranscoding", "getImageLevelInfo", "transcodeImageLevel"}

\* some native call of the operation answered false
NativeFailureIn(o) == \E i \in 1..Len(o.calls) : o.calls[i].res = "false"

\* C11: on a non-disposed session whose state precondition is met, no native
\* failure result makes init, startTranscoding, getImageLevelInfo or
\* transcodeImageLevel raise: the failure is reported as false or null.
C11_NativeFailureNeverThrows ==
  (/\ lastOp.op \in FallibleOps
   /\ ~lastOp.pre.disposed
   /\ (lastOp.op = "init" \/ lastOp.pre.initialized))
    => /\ lastOp.ret # "throw"
       /\ NativeFailureIn(lastOp) => lastOp.ret \in {"false", "null"}

\* the native transcode has just reported failure after a successful fill
C11_Witness ==
  /\ lastOp.op = "transcodeImageLevel" /\ lastOp.ret = "null"
  /\ Len(lastOp.calls) > 1
  /\ lastOp.calls[Len(lastOp.calls)].fn = TranscodeCall
  /\ lastOp.calls[Len(lastOp.calls)].res = "false"

\* C12: on a non-disposed session that is not initialized, getHeader,
\* getBasisTextureFormat, getImageLevelInfo and startTranscoding raise a usage
\* error, issue no native call and leave session state and arenas unchanged.
C12_QueriesNeedInit ==
  /\ []((lastOp.op \in QueryOps /\ ~lastOp.pre.disposed /\ ~lastOp.pre.initialized)
          => (lastOp.ret = "throw" /\ lastOp.calls = <<>>))
  /\ [][(lastOp'.op \in QueryOps /\ ~lastOp'.pre.disposed /\ ~lastOp'.pre.initialized)
          => UNCHANGED <<nativeVars, fieldVars, transcodingReady>>]_vars

\* startTranscoding has just been refused on a session whose latest init failed
C12_Witness ==
  /\ lastOp.op = "startTranscoding" /\ lastOp.ret = "throw"
  /\ ~lastOp.pre.disposed /\ inputMemSize[lastOp.s] > 0

\* C20: getImageLevelInfo is accepted on an initialized session without a
\* prior startTranscoding; it returns null exactly when the native
\* get-image-level-info call returns false and otherwise the session's view.
C20_LevelInfoResult ==
  (lastOp.op = "getImageLevelInfo" /\ ~lastOp.pre.disposed /\ lastOp.pre.initialized)
    => /\ lastOp.ret \in {"null", "info"}
       /\ Len(lastOp.calls) = 1
       /\ lastOp.calls[1].fn = "ktx2_transcoder_get_image_level_info"
       /\ lastOp.ret = "null" <=> lastOp.calls[1].res = "false"

\* getImageLevelInfo has just returned the view on a session that never started
C20_Witness ==
  lastOp.op = "getImageLevelInfo" /\ lastOp.ret = "info" /\ ~lastOp.pre.ready

\* the last native call an operation made
LastCall(o) == o.calls[Len(o.calls)]

\* the byte size the native size query answered in a transcodeImageLevel
\* that got past the fill
SizeQueried(o) == o.calls[2].n

\* C13: an init(dataB) on a session whose input capacity is already at least
\* dataB.length frees and allocates nothing for the input arena: input base
\* and input capacity are the same after the call as before.
C13_InputArenaReused ==
  [][(/\ lastOp'.op = "init" /\ lastOp'.ret # "throw"
      /\ Len(lastOp'.data) <= inputMemSize[lastOp'.s])
       => /\ inputMemPtr'[lastOp'.s] = inputMemPtr[lastOp'.s]
          /\ inputMemSize'[lastOp'.s] = inputMemSize[lastOp'.s]
          /\ "malloc" \notin Fns(lastOp'.calls)
          /\ \A i \in 1..Len(lastOp'.calls) : lastOp'.calls[i].fn = "free" => i = 1
          /\ Len(lastOp'.calls) = 2]_vars

\* init has just run with data shorter than the arena it found
C13_Witness ==
  /\ lastOp.op = "init" /\ lastOp.ret # "throw" /\ Len(lastOp.calls) = 2
  /\ Len(lastOp.data) > 0 /\ Len(lastOp.data) < inputMemSize[lastOp.s]

\* C14: after init(dataB) the bytes the native init is told to read, exactly
\* dataB.length bytes from the input base, equal dataB byte for byte whatever
\* an earlier init on the session wrote: what the native init is presented
\* with is a function of dataB alone.
C14_NativeInitReadsData ==
  (lastOp.op = "init" /\ lastOp.ret # "throw")
    => /\ LastCall(lastOp).fn = "ktx2_transcoder_init"
       /\ LastCall(lastOp).ptr = inputMemPtr[lastOp.s]
       /\ LastCall(lastOp).n = Len(lastOp.data)
       /\ LastCall(lastOp).n <= Len(inputBytes[lastOp.s])
       /\ SubSeq(inputBytes[lastOp.s], 1, LastCall(lastOp).n) = lastOp.data

\* init has just written into an arena whose tail still holds the bytes of an
\* earlier, longer init with other data
C14_Witness ==
  /\ lastOp.op = "init" /\ lastOp.ret # "throw" /\ Len(lastOp.data) > 0
  /\ Len(lastOp.data) < Len(inputBytes[lastOp.s])
  /\ inputBytes[lastOp.s][Len(inputBytes[lastOp.s])] \in Bytes \ {lastOp.data[1]}

\* C15: across the init calls of a session before dispose the input capacity
\* never decreases, and after each init it is at least the length of the data
\* passed to that init.
C15_InputCapacityMonotone ==
  /\ []((lastOp.op = "init" /\ lastOp.ret # "throw")
          => inputMemSize[lastOp.s] >= Len(lastOp.data))
  /\ [][\A s \in Sessions : ~disposed'[s] => inputMemSize'[s] >= inputMemSize[s]]_vars

\* init has just replaced a non-empty input arena by a larger one
C15_Witness ==
  /\ lastOp.op = "init" /\ Len(lastOp.calls) = 4
  /\ lastOp.calls[2].fn = "free" /\ lastOp.calls[2].ptr # 0
  /\ lastOp.calls[3].fn = "malloc"

\* C16: across consecutive transcodeImageLevel calls with no init or dispose
\* between them the output capacity never decreases: a transcode that needs no
\* more bytes than the current capacity keeps the block and the capacity.
C16_OutputCapacityMonotone ==
  [][lastOp'.op = "transcodeImageLevel"
       => /\ outputMemSize'[lastOp'.s] >= outputMemSize[lastOp'.s]
          /\ (Len(lastOp'.calls) >= 2 /\ SizeQueried(lastOp') <= outputMemSize[lastOp'.s])
               => /\ outputMemPtr'[lastOp'.s] = outputMemPtr[lastOp'.s]
                  /\ outputMemSize'[lastOp'.s] = outputMemSize[lastOp'.s]
                  /\ heap' = heap]_vars

\* a transcode has just succeeded in an arena larger than it needed
C16_Witness ==
  /\ lastOp.op = "transcodeImageLevel" /\ lastOp.ret = "result"
  /\ SizeQueried(lastOp) > 0 /\ SizeQueried(lastOp) < outputMemSize[lastOp.s]

\* C18: once a getInstance call has resolved with an instance, every later
\* getInstance call resolves to that same instance and neither instantiates
\* the native module nor runs the constructor again.
C18_ResolvedInstanceIsFinal ==
  [][\A c \in Callers :
       (pc[c] = "idle" /\ pc'[c] # "idle" /\ \E d \in Callers : pc[d] = "resolved")
         => /\ pc'[c] = "resolved"
            /\ \A d \in Callers : pc[d] = "resolved" => got'[c] = got[d]
            /\ nModules' = nModules
            /\ nCtor' = nCtor]_vars

\* C19: no session is constructed before module loading has completed: when
\* ktx2_transcoder_new is called, a module instantiation has completed and the
\* constructor (binding table, basisu_transcoder_init) of an instance has run.
C19_SessionAfterLoad ==
  /\ (\E s \in Sessions : constructed[s])
       => (instance \in 1..nCtor /\ nModules >= nCtor)
  /\ "ktx2_transcoder_new" \in Fns(lastOp.calls) => nCtor >= 1

\* a session has just been created in a run where one load failed and a
\* later one completed
C19_Witness ==
  /\ lastOp.op = "new" /\ constructed[lastOp.s]
  /\ \E c \in Callers : pc[c] = "rejected"

\* the arenas of all sessions and the base offset each one holds
ArenaSet == Sessions \X {"input", "output"}
Base(a) == IF a[2] = "input" THEN inputMemPtr[a[1]] ELSE outputMemPtr[a[1]]

\* C17: with several sessions of one module and their operations interleaved
\* in any order, no two arenas hold the same non-zero base offset, every
\* non-zero base is a block its own session holds, and an operation on one
\* session leaves the blocks held by every other session as they were.
C17_ArenasNeverShared ==
  /\ [](\A a, b \in ArenaSet : (a # b /\ Base(a) # 0) => Base(a) # Base(b))
  /\ [](\A a \in ArenaSet : Base(a) # 0 => holds(heap, a[1], Base(a)))
  /\ [][\A s \in Sessions :
          lastOp'.s # s => \A p \in Blocks(heap, s) : heap'[p] = heap[p]]_vars

\* one session has just replaced its output block while another session holds
\* both of its arenas
C17_Witness ==
  /\ lastOp.op = "transcodeImageLevel"
  /\ \E i \in 1..Len(lastOp.calls) : lastOp.calls[i].fn = "free" /\ lastOp.calls[i].ptr # 0
  /\ "malloc" \in Fns(lastOp.calls)
  /\ \E t \in Sessions \ {lastOp.s} : inputMemPtr[t] # 0 /\ outputMemPtr[t] # 0
  /\ inputMemPtr[lastOp.s] # 0

\* arity and return kind of each native entry point as the external interface
\* lists them (a handle and a pointer are numbers at the boundary)
Entry(name, arity, ret) == [name |-> name, arity |-> arity, ret |-> ret]
ExternalInterface ==
  << Entry("basisu_transcoder_init", 0, "void"),
     Entry("basis_transcoder_format_has_alpha", 1, "boolean"),
     Entry("basis_transcoder_format_is_hdr", 1, "boolean"),
     Entry("basis_transcoder_format_is_uncompressed", 1, "boolean"),
     Entry("basis_get_bytes_per_block_or_pixel", 1, "number"),
     Entry("basis_compute_transcoded_image_size_in_bytes", 3, "number"),
     Entry("ktx2_transcoder_new", 0, "number"),
     Entry("ktx2_transcoder_delete", 1, "void"),
     Entry("ktx2_transcoder_init", 3, "boolean"),
     Entry("ktx2_transcoder_get_header", 1, "number"),
     Entry("ktx2_transcoder_get_basis_texture_format", 1, "number"),
     Entry("ktx2_transcoder_start_transcoding", 1, "boolean"),
     Entry("ktx2_transcoder_get_image_level_info", 5, "boolean"),
     Entry("ktx2_transcoder_transcode_image_level", 13, "boolean") >>

\* C21: for each of the 14 entries of the prototype table the signature
\* derived at binding time (return kind from the sentinel, 'number' once per
\* declared parameter) has the arity and return kind of the external interface.
C21_BindingMatchesInterface ==
  instance # 0
    => /\ Len(funcs) = 14 /\ Len(ExternalInterface) = 14
       /\ \A i \in 1..Len(funcs) :
            /\ funcs[i].name = ExternalInterface[i].name
            /\ funcs[i].ret = ExternalInterface[i].ret
            /\ Len(funcs[i].args) = ExternalInterface[i].arity
            /\ \A j \in 1..Len(funcs[i].args) : funcs[i].args[j] = "number"

\* an instance has been built from the table of the source and handed out
C21_Witness ==
  /\ protos = BasisFuncProtos /\ instance # 0 /\ funcs # <<>>
  /\ \E c \in Callers : pc[c] = "resolved" /\ got[c] = instance

\* C22: if any stub yields a sentinel other than false, 0 or undefined, the
\* construction of the binding table raises and yields no table, not even a
\* partial one; no instance is stored and no session is created.
C22_UnknownSentinelAborts ==
  unknownSentinel(protos)
    => /\ funcs = <<>>
       /\ instance = 0 /\ nCtor = 0
       /\ \A c \in Callers : pc[c] # "resolved" /\ got[c] = 0
       /\ \A s \in Sessions : ~constructed[s]

\* with a bad stub in the table, a module load completed and the caller's
\* promise was rejected
C22_Witness ==
  /\ unknownSentinel(protos) /\ nModules > 0
  /\ \E c \in Callers : pc[c] = "rejected"

\* the transcodeImageLevel just completed got past the fill
Transcoded(o) == o.op = "transcodeImageLevel" /\ Len(o.args) > 0

\* C23: the 13 arguments of the native transcode call are (handle, level,
\* layer, face, output base, count, format, decodeFlags, pitch, rows, -1, -1,
\* 0); for an uncompressed format count = origWidth*origHeight, pitch =
\* origWidth, rows = origHeight, for any other format count = outputSize /
\* bytesPerBlock, pitch = rows = 0; omitted level, layer, face and decodeFlags
\* are passed as 0.
C23_TranscodeArguments ==
  Transcoded(lastOp) =>
    LET a == lastOp.args
        o == lastOp.options
        r == lastOp.read
        given(v) == IF v.t = "undefined" THEN Num(0) ELSE v
    IN /\ Len(a) = 13
       /\ a[1] = Num(transcoderPtr[lastOp.s])
       /\ a[2] = given(o.level) /\ a[3] = given(o.layer) /\ a[4] = given(o.face)
       /\ a[5] = Num(outputMemPtr[lastOp.s])
       /\ a[7] = o.format
       /\ a[8] = given(o.decodeFlags)
       /\ a[11] = Num(-1) /\ a[12] = Num(-1) /\ a[13] = Num(0)
       /\ r.image.uncompressed =>
            /\ a[6] = IF r.origWidth.t = "number" /\ r.origHeight.t = "number"
                      THEN Num(r.origWidth.num * r.origHeight.num) ELSE NaN
            /\ a[9] = r.origWidth /\ a[10] = r.origHeight
       /\ ~r.image.uncompressed =>
            /\ a[6].t = "number"
            /\ a[6].num * r.image.bytesPerBlock = r.outputSize * a[6].den
            /\ a[9] = Num(0) /\ a[10] = Num(0)

\* a compressed transcode with every option given has just succeeded, and so
\* has an uncompressed one before it (its view is the stale result)
C23_Witness ==
  /\ Transcoded(lastOp) /\ lastOp.ret = "result"
  /\ lastOp.options = AllOptions /\ ~lastOp.read.image.uncompressed
  /\ lastOp.read.image.bytesPerBlock = 2 /\ lastOp.read.outputSize = 2

\* C24: for both arenas a grow step happens exactly when the requested size is
\* greater than the capacity; then the old block is freed before the new one
\* is allocated, the new block is requested with exactly the required count
\* and the capacity becomes that count; otherwise the arena sees no free and
\* no allocation.
C24_GrowStep ==
  [][/\ (lastOp'.op = "init" /\ lastOp'.ret # "throw") =>
          LET s == lastOp'.s
              c == lastOp'.calls
              n == Len(lastOp'.data)
          IN IF n > inputMemSize[s]
             THEN /\ Len(c) = 4
                  /\ c[2].fn = "free" /\ c[2].ptr = inputMemPtr[s]
                  /\ c[3].fn = "malloc" /\ c[3].n = n /\ c[3].ptr = inputMemPtr'[s]
                  /\ inputMemSize'[s] = n
                  /\ holds(heap', s, inputMemPtr'[s]) /\ heap'[inputMemPtr'[s]].size = n
             ELSE /\ Len(c) = 2 /\ c[2].fn = "ktx2_transcoder_init"
                  /\ inputMemPtr'[s] = inputMemPtr[s] /\ inputMemSize'[s] = inputMemSize[s]
     /\ Transcoded(lastOp') =>
          LET s == lastOp'.s
              c == lastOp'.calls
              n == lastOp'.read.outputSize
          IN IF n > outputMemSize[s]
             THEN /\ c[3].fn = "free" /\ c[3].ptr = outputMemPtr[s]
                  /\ c[4].fn = "malloc" /\ c[4].n = n /\ c[4].ptr = outputMemPtr'[s]
                  /\ outputMemSize'[s] = n
                  /\ holds(heap', s, outputMemPtr'[s]) /\ heap'[outputMemPtr'[s]].size = n
             ELSE /\ {"free", "malloc"} \cap Fns(c) = {}
                  /\ outputMemPtr'[s] = outputMemPtr[s] /\ outputMemSize'[s] = outputMemSize[s]
                  /\ heap' = heap]_vars

\* a transcode has just replaced a smaller, non-empty output block
C24_Witness ==
  /\ Transcoded(lastOp) /\ lastOp.calls[3].fn = "free" /\ lastOp.calls[3].ptr # 0
  /\ lastOp.calls[4].fn = "malloc" /\ lastOp.calls[4].n = outputMemSize[lastOp.s]

\* C25: every successful transcodeImageLevel returns data whose length is the
\* byte size the native size query answered in that call, not the capacity and
\* not more than the capacity, and width and height equal to the orig_width and
\* orig_height the native fill of that call wrote.
C25_ResultShape ==
  (Transcoded(lastOp) /\ lastOp.ret = "result") =>
    /\ result[lastOp.s].len = SizeQueried(lastOp)
    /\ result[lastOp.s].len <= outputMemSize[lastOp.s]
    /\ lastOp.value.width = Num(lastOp.read.image.origWidth)
    /\ lastOp.value.height = Num(lastOp.read.image.origHeight)

\* C26: for two consecutive successful transcodeImageLevel calls with no init
\* between them, the address range of the earlier result is after the later
\* call either a freed block or a range at the base of the later result; it
\* is never a distinct block still reserved.
C26_EarlierResultNotKept ==
  [][(Transcoded(lastOp') /\ lastOp'.ret = "result" /\ lastOp'.pre.current)
       => \/ result[lastOp'.s].ptr = 0
          \/ result[lastOp'.s].ptr = result'[lastOp'.s].ptr
          \/ ~heap'[result[lastOp'.s].ptr].live]_vars

\* a second successful transcode in a row has just replaced the output block
C26_Witness ==
  /\ Transcoded(lastOp) /\ lastOp.ret = "result" /\ lastOp.pre.current
  /\ lastOp.calls[3].fn = "free" /\ lastOp.calls[3].ptr # 0

\* the native transcode of the call just completed was made and answered false
TranscodeFailedIn(o) ==
  Transcoded(o) /\ LastCall(o).fn = TranscodeCall /\ LastCall(o).res = "false"

\* C27 as stated: a transcodeImageLevel whose fill succeeds and whose native
\* transcode fails returns null and leaves the output base and capacity as
\* they were, so the view of an earlier successful transcode stays in live
\* memory.
C27_FailedTranscodeKeepsArena ==
  [][TranscodeFailedIn(lastOp')
       => /\ lastOp'.ret = "null"
          /\ outputMemPtr'[lastOp'.s] = outputMemPtr[lastOp'.s]
          /\ outputMemSize'[lastOp'.s] = outputMemSize[lastOp'.s]
          /\ holds(heap, lastOp'.s, result[lastOp'.s].ptr)
               => holds(heap', lastOp'.s, result[lastOp'.s].ptr)]_vars

\* C27 amended: such a call returns null; the output arena is as before when
\* the queried size fits the capacity, and has been replaced by a block of the
\* queried size, the old block freed, when it does not.
C27_FailedTranscodeAfterGrow ==
  [][TranscodeFailedIn(lastOp')
       => /\ lastOp'.ret = "null"
          /\ IF lastOp'.read.outputSize <= outputMemSize[lastOp'.s]
             THEN /\ outputMemPtr'[lastOp'.s] = outputMemPtr[lastOp'.s]
                  /\ outputMemSize'[lastOp'.s] = outputMemSize[lastOp'.s]
                  /\ heap' = heap
             ELSE /\ outputMemSize'[lastOp'.s] = lastOp'.read.outputSize
                  /\ \/ outputMemPtr[lastOp'.s] = 0
                     \/ outputMemPtr'[lastOp'.s] = outputMemPtr[lastOp'.s]
                     \/ ~heap'[outputMemPtr[lastOp'.s]].live]_vars

\* a native transcode has just failed after the arena was replaced for it,
\* right after a successful transcode
C27_Witness ==
  /\ TranscodeFailedIn(lastOp) /\ lastOp.pre.current
  /\ lastOp.calls[3].fn = "free" /\ lastOp.calls[3].ptr # 0

C29_OneInfoBlock ==
  /\ \A s \in Sessions : (constructed[s] /\ ~disposed[s])
       => holds(heap, s, infoPtr[s]) /\ heap[infoPtr[s]].size = 56
  /\ (/\ lastOp.op \in {"getImageLevelInfo", "transcodeImageLevel"}
      /\ Len(lastOp.calls) >= 1)
       => /\ lastOp.calls[1].fn = "ktx2_transcoder_get_image_level_info"
          /\ lastOp.calls[1].ptr = infoPtr[lastOp.s]

\* the fields of struct ktx2_header in order, with their byte sizes
Field(name, size) == [name |-> name, size |-> size]
HeaderLayout ==
  << Field("identifier", 12), Field("vkFormat", 4), Field("typeSize", 4),
     Field("width", 4), Field("height", 4), Field("depth", 4),
     Field("layers", 4), Field("faces", 4), Field("levels", 4) >>

RECURSIVE PackedOffset(_)
\* byte offset of the k-th field when every preceding field is counted
PackedOffset(k) == IF k = 1 THEN 0 ELSE PackedOffset(k - 1) + HeaderLayout[k - 1].size

\* C30: the Header view's accessors read the 32-bit words at the byte offsets
\* of the packed layout: format tag at 12, type size 16, width 20, height 24,
\* depth 28, layer count 32, face count 36, level count 40, relative to the
\* address the native get-header call returned.
C30_HeaderOffsets ==
  (lastOp.op = "getHeader" /\ lastOp.ret = "header") =>
    LET at(f) == lastOp.value[f] - lastOp.read.ptr
    IN /\ at("vkFormat") = 12 /\ at("typeSize") = 16 /\ at("width") = 20
       /\ at("height") = 24 /\ at("depth") = 28 /\ at("layers") = 32
       /\ at("faces") = 36 /\ at("levels") = 40
       /\ \A k \in 2..Len(HeaderLayout) : at(HeaderLayout[k].name) = PackedOffset(k)

\* getHeader has just returned a view made at a non-zero address
C30_Witness ==
  lastOp.op = "getHeader" /\ lastOp.ret = "header" /\ lastOp.read.ptr = 64

\* the fields of struct ktx2_header after the level count
HeaderTail ==
  << Field("supercompressionScheme", 4), Field("dfdByteOffset", 4),
     Field("dfdByteLength", 4), Field("kvdByteOffset", 4),
     Field("kvdByteLength", 4), Field("sgdByteOffset", 8),
     Field("sgdByteLength", 8) >>

FullHeader == HeaderLayout \o HeaderTail

RECURSIVE TotalSize(_)
\* bytes of a sequence of fields
TotalSize(fs) == IF fs = <<>> THEN 0 ELSE Head(fs).size + TotalSize(Tail(fs))

\* number of fields of a given byte size in the struct
FieldsOfSize(n) == Cardinality({k \in 1..Len(FullHeader) : FullHeader[k].size = n})

\* C31 as stated: the header projection spans 52 bytes, made of a 12-byte
\* identifier, ten 4-byte fields and two 8-byte fields.
C31_HeaderSpans52 ==
  (lastOp.op = "getHeader" /\ lastOp.ret = "header") =>
    /\ lastOp.read.byteLength = 52
    /\ FieldsOfSize(12) = 1 /\ FieldsOfSize(4) = 10 /\ FieldsOfSize(8) = 2

\* C31 amended: the header projection spans 80 bytes, made of a 12-byte
\* identifier, thirteen 4-byte fields and two 8-byte fields, which is the
\* whole of struct ktx2_header.
C31_HeaderSpans80 ==
  (lastOp.op = "getHeader" /\ lastOp.ret = "header") =>
    /\ lastOp.read.byteLength = 80
    /\ lastOp.read.byteLength = 12 + 13 * 4 + 2 * 8
    /\ FieldsOfSize(12) = 1 /\ FieldsOfSize(4) = 13 /\ FieldsOfSize(8) = 2
    /\ lastOp.read.byteLength = TotalSize(FullHeader)

\* getHeader has just made a view at the lower address
C31_Witness ==
  lastOp.op = "getHeader" /\ lastOp.ret = "header" /\ lastOp.read.ptr = 16
     /\ lastOp.read.byteLength > 0

\* C32: for every struct the native side fills with the documented layout, the
\* view's alphaFlag is true exactly when m_alpha_flag is set and its
\* iframeFlag exactly when m_iframe_flag is set, whatever the other flag and
\* the bytes the native side did not write.
C32_FlagsReadBack ==
  (lastOp.op = "getImageLevelInfo" /\ lastOp.ret = "info") =>
    /\ lastOp.value.alphaFlag = lastOp.read.alpha
    /\ lastOp.value.iframeFlag = lastOp.read.iframe

\* C33: in every operation sequence, heap growth included, the address a
\* session passes as the info pointer to the native fill, and the address it
\* frees last in dispose, is the address its constructor's allocation
\* returned.
C33_InfoAddressKept ==
  /\ \A i \in 1..Len(lastOp.calls) :
       lastOp.calls[i].fn = "ktx2_transcoder_get_image_level_info"
         => lastOp.calls[i].ptr = infoPtr[lastOp.s]
  /\ (lastOp.op = "dispose" /\ Len(lastOp.calls) > 0)
       => LastCall(lastOp).fn = "free" /\ LastCall(lastOp).ptr = infoPtr[lastOp.s]

\* C34: a getInstance call whose module load rejects, or whose constructor
\* raises while building the binding table, is rejected and stores no
\* instance; a stored instance always has its whole binding table; and a
\* getInstance call that finds no stored instance starts a fresh load.
C34_FailedLoadStoresNothing ==
  /\ [](instance # 0 => (~unknownSentinel(protos) /\ Len(funcs) = Len(protos)))
  /\ [][\A c \in Callers :
         /\ (pc[c] = "awaiting" /\ pc'[c] = "rejected")
              => (instance' = instance /\ nCtor' = nCtor /\ got'[c] = 0)
         /\ (pc[c] = "awaiting" /\ pc'[c] # "awaiting" /\ unknownSentinel(protos))
              => pc'[c] = "rejected"
         /\ (pc[c] = "idle" /\ pc'[c] # "idle" /\ instance = 0)
              => (pc'[c] = "awaiting" /\ nModules' = nModules + 1)]_vars

\* without any stored instance more loads were started than there are
\* callers, so a caller whose call was rejected has called again, and a load
\* is under way
C34_Witness ==
  /\ instance = 0 /\ nModules > Cardinality(Callers)
  /\ \E c \in Callers : pc[c] = "awaiting"
  /\ \E c \in Callers : pc[c] = "rejected"

\* C35: in the earlier revisions, when the native get-image-level-info call
\* reports failure, transcodeImageLevel returns null and makes no further
\* native call: no size query, no allocation, no native transcode.
C35_EarlierFillFailureStops ==
  (/\ revision \in {"arena", "package"}
   /\ lastOp.op = "transcodeImageLevel" /\ Len(lastOp.calls) >= 1
   /\ lastOp.calls[1].fn = "ktx2_transcoder_get_image_level_info"
   /\ lastOp.calls[1].res = "false")
    => /\ lastOp.ret = "null"
       /\ Len(lastOp.calls) = 1

\* C36: in the basis-transcoder package a second dispose() on a session
\* raises no error and frees no block a second time.
C36_SecondDisposeIsQuiet ==
  (revision = "package" /\ lastOp.op = "dispose" /\ lastOp.read.nulled)
    => /\ lastOp.ret # "throw"
       /\ \A i \in 1..Len(lastOp.calls) :
            lastOp.calls[i].fn = "free" => lastOp.calls[i].ok

====
